---------------------------- MODULE Spec2Model ----------------------------
(***************************************************************************)
(* Model of Journal_Lookup_Tool.py: the PubMed journal-club lookup tool.   *)
(*                                                                         *)
(* Three specifications share this module:                                 *)
(*   SpecWrap    the greedy line-wrap loop of get_pptx                     *)
(*   SpecLookup  lookup_pubmed with get_pmids and get_paper                *)
(*   Spec        main: config, dates, lookup, get_paper_info, get_pptx     *)
(*                                                                         *)
(* Strings that are cut into pieces (the wrapped text) are sequences of    *)
(* one-character strings.  Indices returned by rfind are 0-based, as in    *)
(* Python.                                                                 *)
(***************************************************************************)
EXTENDS Integers, Sequences, FiniteSets, TLC

VARIABLES
    \* ---- wrap loop (get_pptx) ----
    wpc,        \* position in the wrap code: "test", "loop", "done"
    text,       \* the remaining text (title_plain_text, abstract_plain_text, ...)
    max_characters_per_line,
    runs,       \* the text of the runs added so far, without the trailing "\n"
    breaks,     \* per emitted chunk: was split_index -1, and what lstrip removed
    orig,       \* the text the wrap code was entered with
    \* ---- lookup_pubmed ----
    lpc,            \* position in lookup_pubmed
    journals,       \* config_file_dict['journals']
    keywords,       \* config_file_dict['topics']
    attempt_number,
    response_attr,  \* do the HTTPError objects of the build carry .response
    ji,             \* index of journal_of_interest in journals
    ki,             \* index of keyword_query in keywords
    pmids,          \* the IdList of the current query
    pi,             \* index of pmid in pmids
    attempt,        \* pass of `for _ in range(attempt_number)`, from 1
    papers,         \* the list lookup_pubmed returns
    raised,         \* the exception that left lookup_pubmed, or "none"
    queries,        \* the combined_query of every esearch call so far
    since_fetch,    \* sleep(1) calls since the last efetch call
    fetch_pauses,   \* sleep(1) calls that lay between the last two efetch calls
    resp,           \* the answers to the efetch calls for the current pmid
    backoffs,       \* sleep(10) calls made for the current pmid
    \* ---- main ----
    pc,                 \* position in main
    config_txt,         \* what config.txt holds when main starts
    files,              \* the output files: "absent", "old" (there before the
                        \* run) or "new" (saved by this run)
    config_file_dict,
    start_end_date,
    main_papers,        \* papers of main: what lookup_pubmed returned
    raw_components,     \* components of get_paper_info before remove_duplicates
    components,
    closer,             \* the closing banner printed: print_closer_0 or _1
    slides,             \* publication slides added by get_pptx
    error,              \* the exception that ended main, or "none"
    network,            \* has an esearch or efetch call been issued
    \* ---- get_pptx ----
    pptx_name,          \* the pptx_name argument
    existed,            \* the files as get_pptx found them
    pages               \* per publication slide: its institution summary

wrapVars == <<wpc, text, max_characters_per_line, runs, breaks, orig>>

lookupVars == <<lpc, journals, keywords, attempt_number, response_attr, ji, ki,
                pmids, pi, attempt, papers, raised, queries, since_fetch,
                fetch_pauses, resp, backoffs>>

mainVars == <<pc, config_txt, files, config_file_dict, start_end_date,
              main_papers, raw_components, components, closer, slides, error,
              network>>

pptxVars == <<pptx_name, existed, pages>>

vars == <<wrapVars, lookupVars, mainVars, pptxVars>>

-----------------------------------------------------------------------------
(* Bounds *)

MaxLen == 6         \* longest text handed to the wrap loop
MaxBudget == 3      \* largest max_characters_per_line tried
MaxJournals == 2    \* most journals in the config
MaxTopics == 2      \* most topics in the config
MaxPmids == 1       \* most identifiers in one search result
MaxAttempts == 3    \* largest attempt_number tried (the default is 2)
MaxPapers == 2      \* most raw records returned by lookup_pubmed
MaxArticles == 3    \* most articles in the raw records of one run together

-----------------------------------------------------------------------------
(* Python string primitives used by the wrap loop *)

SP == " "
TAB == "\t"
Chars == {"a", SP, TAB}
Whitespace == {SP, TAB}         \* what str.lstrip() removes

\* the texts of at most n characters
StringsUpTo(n) == UNION {[1 .. k -> Chars] : k \in 0 .. n}

SetMax(S) == CHOOSE x \in S : \A y \in S : y <= x
Min2(a, b) == IF a <= b THEN a ELSE b

\* s.rfind(ch, start, end): highest 0-based index in [start, end) holding ch, else -1
rfind(s, ch, start, end) ==
    LET hits == {i \in start .. (Min2(end, Len(s)) - 1) : s[i + 1] = ch}
    IN  IF hits = {} THEN -1 ELSE SetMax(hits)

\* s[:n]
Prefix(s, n) == SubSeq(s, 1, Min2(n, Len(s)))
\* s[n:]
Suffix(s, n) == SubSeq(s, n + 1, Len(s))

\* number of leading whitespace characters of s
RECURSIVE LeadingWs(_)
LeadingWs(s) ==
    IF s # <<>> /\ Head(s) \in Whitespace THEN 1 + LeadingWs(Tail(s)) ELSE 0

\* s.lstrip()
lstrip(s) == Suffix(s, LeadingWs(s))

-----------------------------------------------------------------------------
(* Values of the variables of a part of the program that is not running *)

WrapIdle ==
    /\ wpc = "idle"
    /\ text = <<>>
    /\ max_characters_per_line = 1
    /\ runs = <<>>
    /\ breaks = <<>>
    /\ orig = <<>>

LookupIdle ==
    /\ lpc = "idle"
    /\ journals = <<>>
    /\ keywords = <<>>
    /\ attempt_number = 2
    /\ response_attr = FALSE
    /\ ji = 0
    /\ ki = 0
    /\ pmids = <<>>
    /\ pi = 0
    /\ attempt = 0
    /\ papers = <<>>
    /\ raised = "none"
    /\ queries = <<>>
    /\ since_fetch = 0
    /\ fetch_pauses = -1
    /\ resp = <<>>
    /\ backoffs = 0

MainIdle ==
    /\ pc = "idle"
    /\ config_txt = "missing"
    /\ files = [f \in {"publications.pptx"} |-> "absent"]
    /\ config_file_dict = "unset"
    /\ start_end_date = "unset"
    /\ main_papers = <<>>
    /\ raw_components = <<>>
    /\ components = <<>>
    /\ closer = "none"
    /\ slides = 0
    /\ error = "none"
    /\ network = FALSE

PptxIdle ==
    /\ pptx_name = "publications.pptx"
    /\ existed = <<>>
    /\ pages = <<>>

-----------------------------------------------------------------------------
(* The remote service *)

TopicNames == {"t1", "t2"}

\* the lists of at most n elements of S
SeqsUpTo(S, n) == UNION {[1 .. k -> S] : k \in 0 .. n}

\* identifiers are opaque to the program: an IdList is told apart by its
\* length only, and holds the identifiers 1 .. n in that order
IdLists == {[i \in 1 .. n |-> i] : n \in 0 .. MaxPmids}

\* the journal lines of the config are distinct names: a list of n journals
\* is journal 1 .. journal n; the topic lines may repeat
JournalLists == {[i \in 1 .. n |-> i] : n \in 0 .. MaxJournals}
TopicLists == SeqsUpTo(TopicNames, MaxTopics)

\* what Entrez.esearch / Entrez.read can do to get_pmids
SearchAnswers ==
    {[kind |-> "ok", IdList |-> l] : l \in IdLists}
        \cup {[kind |-> "HTTPError", IdList |-> <<>>],
              [kind |-> "unreadable", IdList |-> <<>>]}

\* what Entrez.efetch / Entrez.read can do to get_paper: a record, an HTTP
\* error status, or any other failure (URLError, unparsable body)
FetchAnswers == {"ok", "500", "429", "404", "error"}

-----------------------------------------------------------------------------
(* get_pmids, lines 67-84 *)

\* raises == "none": the IdList is returned.  The handler of line 83 builds
\* HTTPError from one argument, which is a TypeError (the constructor takes
\* url, code, msg, hdrs, fp); the ValueError of line 78 is not an HTTPError
\* and passes the handler.
get_pmids(answer) ==
    CASE answer.kind = "ok"         -> [raises |-> "none", pmids |-> answer.IdList]
      [] answer.kind = "unreadable" -> [raises |-> "ValueError", pmids |-> <<>>]
      [] answer.kind = "HTTPError"  -> [raises |-> "TypeError", pmids |-> <<>>]

(* get_paper, lines 86-109 *)

\* slept: the number of time.sleep(10) calls made.  After the sleep of line
\* 103 or 106 control reaches `return paper` with paper never assigned.
get_paper(answer, has_response) ==
    CASE answer = "ok"    -> [raises |-> "none", slept |-> 0]
      [] answer = "error" -> [raises |-> "Exception", slept |-> 0]
      [] answer \in {"500", "429", "404"} ->
            IF ~has_response
            THEN [raises |-> "AttributeError", slept |-> 0]
            ELSE IF answer \in {"500", "429"}
                 THEN [raises |-> "UnboundLocalError", slept |-> 1]
                 ELSE [raises |-> "HTTPError", slept |-> 0]

-----------------------------------------------------------------------------
(* lookup_pubmed, lines 654-703 *)

combined_query(keyword_query, journal_of_interest) ==
    [keyword |-> keyword_query, journal |-> journal_of_interest]

LookupInit ==
    /\ lpc = "start"
    /\ journals \in JournalLists
    /\ keywords \in TopicLists
    /\ attempt_number \in 1 .. MaxAttempts
    /\ response_attr \in BOOLEAN
    /\ ji = 0
    /\ ki = 0
    /\ pmids = <<>>
    /\ pi = 0
    /\ attempt = 0
    /\ papers = <<>>
    /\ raised = "none"
    /\ queries = <<>>
    /\ since_fetch = 0
    /\ fetch_pauses = -1
    /\ resp = <<>>
    /\ backoffs = 0
    /\ WrapIdle
    /\ MainIdle
    /\ PptxIdle

\* the loop heads of lines 679 and 681, entered after query (j, k) is done:
\* move to the next keyword, else to the next journal, else to the return
ToNextQuery(j, k) ==
    IF keywords # <<>> /\ k < Len(keywords)
    THEN /\ lpc' = "search" /\ ji' = j /\ ki' = k + 1
    ELSE IF keywords # <<>> /\ j < Len(journals)
         THEN /\ lpc' = "search" /\ ji' = j + 1 /\ ki' = 1
         ELSE /\ lpc' = "return" /\ ji' = j /\ ki' = k

\* lines 665-679: papers = [], the config values, the first loop heads
LookupStart ==
    /\ lpc = "start"
    /\ IF journals # <<>> /\ keywords # <<>>
       THEN /\ lpc' = "search" /\ ji' = 1 /\ ki' = 1
       ELSE /\ lpc' = "return" /\ UNCHANGED <<ji, ki>>
    /\ UNCHANGED <<journals, keywords, attempt_number, response_attr, pmids, pi,
                   attempt, papers, raised, queries, since_fetch, fetch_pauses,
                   resp, backoffs>>
    /\ UNCHANGED <<wrapVars, mainVars, pptxVars>>

\* lines 683-692: build the query, call get_pmids, enter the pmid loop
Search ==
    /\ lpc = "search"
    /\ \E answer \in SearchAnswers :
          LET r == get_pmids(answer)
          IN  /\ queries' = Append(queries, combined_query(keywords[ki], journals[ji]))
              /\ IF r.raises # "none"
                 THEN /\ raised' = r.raises
                      /\ lpc' = "raised"
                      /\ UNCHANGED <<pmids, pi, ji, ki>>
                 ELSE /\ pmids' = r.pmids
                      /\ raised' = raised
                      /\ IF r.pmids # <<>>
                         THEN /\ lpc' = "pause" /\ pi' = 1 /\ UNCHANGED <<ji, ki>>
                         ELSE /\ pi' = 0 /\ ToNextQuery(ji, ki)
    /\ UNCHANGED <<journals, keywords, attempt_number, response_attr, attempt,
                   papers, since_fetch, fetch_pauses, resp, backoffs>>
    /\ UNCHANGED <<wrapVars, mainVars, pptxVars>>

\* line 694: time.sleep(1), then the head of the attempt loop of line 695
Pause ==
    /\ lpc = "pause"
    /\ since_fetch' = since_fetch + 1
    /\ attempt' = 1
    /\ resp' = <<>>
    /\ backoffs' = 0
    /\ lpc' = "fetch"
    /\ UNCHANGED <<journals, keywords, attempt_number, response_attr, ji, ki,
                   pmids, pi, papers, raised, queries, fetch_pauses>>
    /\ UNCHANGED <<wrapVars, mainVars, pptxVars>>

\* lines 696-702: one pass of the attempt loop: get_paper, append or handler,
\* then the next pass, the next pmid or the next query
Fetch ==
    /\ lpc = "fetch"
    /\ \E answer \in FetchAnswers :
          LET r == get_paper(answer, response_attr)
          IN  /\ resp' = Append(resp, answer)
              /\ backoffs' = backoffs + r.slept
              /\ fetch_pauses' = since_fetch
              /\ since_fetch' = 0
              /\ papers' = IF r.raises = "none"
                           THEN Append(papers, [pmid |-> pmids[pi]])
                           ELSE papers
              /\ IF r.raises \notin {"none", "HTTPError"}
                 THEN /\ raised' = r.raises
                      /\ lpc' = "raised"
                      /\ UNCHANGED <<attempt, pi, ji, ki>>
                 ELSE /\ raised' = raised
                      /\ IF attempt < attempt_number
                         THEN /\ attempt' = attempt + 1
                              /\ lpc' = "fetch"
                              /\ UNCHANGED <<pi, ji, ki>>
                         ELSE /\ attempt' = attempt
                              /\ IF pi < Len(pmids)
                                 THEN /\ pi' = pi + 1
                                      /\ lpc' = "pause"
                                      /\ UNCHANGED <<ji, ki>>
                                 ELSE /\ pi' = pi
                                      /\ ToNextQuery(ji, ki)
    /\ UNCHANGED <<journals, keywords, attempt_number, response_attr, pmids,
                   queries>>
    /\ UNCHANGED <<wrapVars, mainVars, pptxVars>>

\* line 703: return papers
LookupReturn ==
    /\ lpc = "return"
    /\ lpc' = "returned"
    /\ UNCHANGED <<journals, keywords, attempt_number, response_attr, ji, ki,
                   pmids, pi, attempt, papers, raised, queries, since_fetch,
                   fetch_pauses, resp, backoffs>>
    /\ UNCHANGED <<wrapVars, mainVars, pptxVars>>

LookupNext == LookupStart \/ Search \/ Pause \/ Fetch \/ LookupReturn

SpecLookup == LookupInit /\ [][LookupNext]_vars

-----------------------------------------------------------------------------
(* The wrap loop: get_pptx lines 388-411 (title); the same code wraps the   *)
(* keywords (283-306), the abstract (428-451), the authors (491-515) and   *)
(* the institutions (542-559).                                             *)

WrapInit ==
    /\ wpc = "test"
    /\ text \in StringsUpTo(MaxLen)
    /\ max_characters_per_line \in 1 .. MaxBudget
    /\ runs = <<>>
    /\ breaks = <<>>
    /\ orig = text
    /\ LookupIdle
    /\ MainIdle
    /\ PptxIdle

\* lines 391-393: where the text is cut, and whether the cut is forced
\* (rfind found no space in the first max_characters_per_line characters)
split_index_wide(s, budget) ==
    LET found == rfind(s, SP, 0, budget + 1)
    IN  [index |-> IF found = -1 THEN budget ELSE found, hard |-> found = -1]

split_index(s, budget) ==
    LET found == rfind(s, SP, 0, budget)
    IN  [index |-> IF found = -1 THEN budget ELSE found, hard |-> found = -1]

\* lines 395-397: the text left for the next pass
remaining_unstripped(s, idx) == Suffix(s, idx)

remaining_skip(s, idx) == lstrip(Suffix(s, idx + 1))

remaining(s, idx) == lstrip(Suffix(s, idx))

\* one pass of `while len(text) > max_characters_per_line`, lines 389-401
WrapChunk ==
    /\ wpc \in {"test", "loop"}
    /\ Len(text) > max_characters_per_line
    /\ LET cut   == split_index(text, max_characters_per_line)
           chunk == Prefix(text, cut.index)
           rest  == remaining(text, cut.index)
       IN  /\ runs' = Append(runs, chunk)
           /\ text' = rest
           /\ breaks' = Append(breaks,
                  [hard |-> cut.hard,
                   stripped |-> SubSeq(text, cut.index + 1, Len(text) - Len(rest))])
    /\ wpc' = "loop"
    /\ UNCHANGED <<max_characters_per_line, orig>>
    /\ UNCHANGED <<lookupVars, mainVars, pptxVars>>

\* the run added after the loop (lines 403-406) or in the else branch (408-411)
WrapRest ==
    /\ wpc \in {"test", "loop"}
    /\ Len(text) <= max_characters_per_line
    /\ runs' = Append(runs, text)
    /\ wpc' = "done"
    /\ UNCHANGED <<text, max_characters_per_line, breaks, orig>>
    /\ UNCHANGED <<lookupVars, mainVars, pptxVars>>

WrapNext == WrapChunk \/ WrapRest

SpecWrap == WrapInit /\ [][WrapNext]_vars

FairSpecWrap == SpecWrap /\ WF_vars(WrapNext)

-----------------------------------------------------------------------------
(* Raw records.  A key that may be missing from a mapping is a sequence    *)
(* of length 0 (no such key) or 1 (the value); the nesting                  *)
(* article["MedlineCitation"]["Article"][...] is flattened.                *)

None == <<>>
Some(v) == <<v>>

NoTitle == "No title available"
NoAbstract == "No abstract available"

Author1 == [LastName |-> Some("Ledray"), AffiliationInfo |-> Some(<<"MIT", "MIT">>)]
Author2 == [LastName |-> Some("P"), AffiliationInfo |-> Some(<<"UCSD">>)]

\* the fields other than title and abstract, all present and non-empty
Full == [JournalTitle |-> Some("Nature"),
         ArticleDate  |-> Some(<<[Year |-> TRUE, Month |-> TRUE, Day |-> TRUE]>>),
         ELocationID  |-> Some(<<"doi">>),
         AuthorList   |-> Some(<<Author1, Author2>>)]
\* all of them missing
Bare == [JournalTitle |-> None, ArticleDate |-> None, ELocationID |-> None,
         AuthorList |-> None]
\* the list-valued ones present and empty
Empty == [JournalTitle |-> Some("Cell"), ArticleDate |-> Some(<<>>),
          ELocationID |-> Some(<<>>), AuthorList |-> Some(<<>>)]

Art(title, abstract, rest) ==
    [citation     |-> TRUE,          \* has "MedlineCitation" with "Article"
     ArticleTitle |-> title,
     AbstractText |-> abstract,      \* None: no "Abstract" or no "AbstractText"
     JournalTitle |-> rest.JournalTitle,
     ArticleDate  |-> rest.ArticleDate,
     ELocationID  |-> rest.ELocationID,
     AuthorList   |-> rest.AuthorList]

Articles ==
    {[Art(None, None, Bare) EXCEPT !.citation = FALSE],
     Art(None, Some(<<"x">>), Full),
     Art(Some("A"), None, Full),
     Art(Some("A"), Some(<<"x">>), Full),
     Art(Some("A"), Some(<<"y">>), Bare),
     Art(Some("B"), Some(<<"x">>), Full),
     Art(Some("B"), Some(<<"y">>), Empty),
     Art(Some("B"), Some(<<>>), Full)}

\* a raw record is its "PubmedArticle" list
RECURSIVE ArticleCount(_)
ArticleCount(ps) ==
    IF ps = <<>> THEN 0 ELSE Len(Head(ps)) + ArticleCount(Tail(ps))

-----------------------------------------------------------------------------
(* remove_duplicates, lines 57-59 *)

RECURSIVE dedup_keep_all(_, _)
dedup_keep_all(cs, seen) ==
    IF cs = <<>> THEN <<>>
    ELSE IF Head(cs).Title \in seen
         THEN <<Head(cs)>> \o dedup_keep_all(Tail(cs), seen)
         ELSE <<Head(cs)>> \o dedup_keep_all(Tail(cs), seen \cup {Head(cs).Title})

RECURSIVE dedup(_, _)
dedup(cs, seen) ==
    IF cs = <<>> THEN <<>>
    ELSE IF Head(cs).Title \in seen
         THEN dedup(Tail(cs), seen)
         ELSE <<Head(cs)>> \o dedup(Tail(cs), seen \cup {Head(cs).Title})

remove_duplicates_none(cs) == dedup_keep_all(cs, {})

remove_duplicates(cs) == dedup(cs, {})

-----------------------------------------------------------------------------
(* get_paper_info, lines 111-175 *)

\* lines 155-171: surnames, or the placeholder when the list is missing or an
\* author has no LastName (KeyError); affiliations only with an AuthorList
Surnames(al) ==
    IF al = None \/ \E i \in 1 .. Len(al[1]) : al[1][i].LastName = None
    THEN [placeholder |-> TRUE, list |-> <<>>]
    ELSE [placeholder |-> FALSE,
          list |-> [i \in 1 .. Len(al[1]) |-> al[1][i].LastName[1]]]

RECURSIVE Affiliations(_)
Affiliations(authors) ==
    IF authors = <<>> THEN <<>>
    ELSE (IF Head(authors).AffiliationInfo = None
          THEN <<>> ELSE Head(authors).AffiliationInfo[1])
         \o Affiliations(Tail(authors))

\* lines 136-171: the fields after title and abstract
Fields(article, title, abstract) ==
    [Title       |-> title,
     Abstract    |-> abstract,
     Journal     |-> article.JournalTitle,
     Date        |-> IF article.ArticleDate = None
                     THEN [placeholder |-> TRUE, list |-> <<>>]
                     ELSE [placeholder |-> FALSE, list |-> article.ArticleDate[1]],
     Link        |-> IF article.ELocationID = None
                     THEN [placeholder |-> TRUE, list |-> <<>>]
                     ELSE [placeholder |-> FALSE, list |-> article.ELocationID[1]],
     Authors     |-> Surnames(article.AuthorList),
     Institution |-> IF article.AuthorList = None THEN None
                     ELSE Some(Affiliations(article.AuthorList[1]))]

\* lines 119-172, one article: "skip" (no citation), "break" (lines 127, 134),
\* "raise" (AbstractText[0] of an empty list) or "append"
article_component_keep(article) ==
    IF ~article.citation THEN [does |-> "skip", component |-> None]
    ELSE IF article.ArticleTitle = None THEN [does |-> "break", component |-> None]
    ELSE IF article.AbstractText = None
    THEN [does |-> "append",
          component |-> Some(Fields(article, article.ArticleTitle[1], NoAbstract))]
    ELSE IF article.AbstractText[1] = <<>>
    THEN [does |-> "raise", component |-> None]
    ELSE [does |-> "append",
          component |-> Some(Fields(article, article.ArticleTitle[1],
                                    article.AbstractText[1][1]))]

article_component(article) ==
    IF ~article.citation THEN [does |-> "skip", component |-> None]
    ELSE IF article.ArticleTitle = None THEN [does |-> "break", component |-> None]
    ELSE IF article.AbstractText = None THEN [does |-> "break", component |-> None]
    ELSE IF article.AbstractText[1] = <<>>
    THEN [does |-> "raise", component |-> None]
    ELSE [does |-> "append",
          component |-> Some(Fields(article, article.ArticleTitle[1],
                                    article.AbstractText[1][1]))]

\* line 118: the loop over the articles of one raw record
RECURSIVE paper_components(_)
paper_components(articles) ==
    IF articles = <<>> THEN [raises |-> "none", components |-> <<>>]
    ELSE LET r == article_component(Head(articles))
         IN  CASE r.does = "break" -> [raises |-> "none", components |-> <<>>]
               [] r.does = "raise" -> [raises |-> "IndexError", components |-> <<>>]
               [] OTHER ->
                    LET more == paper_components(Tail(articles))
                    IN  [raises |-> more.raises,
                         components |-> r.component \o more.components]

\* line 117: the loop over the raw records; the components appended before
\* an exception are lost with the call
RECURSIVE all_components(_)
all_components(ps) ==
    IF ps = <<>> THEN [raises |-> "none", components |-> <<>>]
    ELSE LET r == paper_components(Head(ps))
         IN  IF r.raises # "none" THEN r
             ELSE LET more == all_components(Tail(ps))
                  IN  [raises |-> more.raises,
                       components |-> r.components \o more.components]

-----------------------------------------------------------------------------
(* get_pptx, lines 177-562 *)

\* lines 468-483 and 521-536 for component i: the exception raised, if any.
\* institution_count is assigned only under `if "Institution" in component`
\* and is read for every component.
slide_raises(cs, i) ==
    IF ~cs[i].Date.placeholder /\ cs[i].Date.list = <<>> THEN "IndexError"
    ELSE IF ~cs[i].Link.placeholder /\ cs[i].Link.list = <<>> THEN "IndexError"
    ELSE IF \A j \in 1 .. i : cs[j].Institution = None THEN "UnboundLocalError"
    ELSE "none"

\* lines 527-532: how often an affiliation occurs in the list
institution_count(insts, x) ==
    Cardinality({i \in 1 .. Len(insts) : insts[i] = x})

\* line 536: the keys of institution_count are in first-occurrence order and
\* sorted(..., reverse=True) is stable, so x comes before y when it occurs
\* more often, or as often and first
ComesBefore(insts, x, y) ==
    LET first(z) == CHOOSE i \in 1 .. Len(insts) :
                        insts[i] = z /\ \A j \in 1 .. i - 1 : insts[j] # z
    IN  \/ institution_count(insts, x) > institution_count(insts, y)
        \/ /\ institution_count(insts, x) = institution_count(insts, y)
           /\ first(x) < first(y)

top_two_institutions(insts) ==
    LET names == {insts[i] : i \in 1 .. Len(insts)}
        rank(x) == Cardinality({y \in names : ComesBefore(insts, y, x)})
    IN  [k \in 1 .. Min2(2, Cardinality(names)) |->
            CHOOSE x \in names : rank(x) = k - 1]

\* line 538: "name count" for the top two
institution_info(insts) ==
    LET top == top_two_institutions(insts)
    IN  [k \in 1 .. Len(top) |-> <<top[k], institution_count(insts, top[k])>>]

\* lines 525-540, slide i: institution_count is rebuilt only when the
\* component has "Institution"; otherwise the one in scope is the one built
\* for the last component before it that had the key
institution_text(cs, i) ==
    LET with == {j \in 1 .. i : cs[j].Institution # None}
        last == CHOOSE j \in with : \A k \in with : k <= j
    IN  institution_info(cs[last].Institution[1])

\* what get_pptx does: "exists" (lines 191-193), an exception while the
\* slides are built, or "saved"; written is the file that save() writes
\* (line 562), pages the institution line of each slide of the saved file
get_pptx(name, exists, cs) ==
    IF exists
    THEN [does |-> "exists", slides |-> 0, written |-> None, pages |-> <<>>]
    ELSE LET bad == {i \in 1 .. Len(cs) : slide_raises(cs, i) # "none"}
         IN  IF bad # {}
             THEN [does |-> slide_raises(cs, CHOOSE i \in bad : \A j \in bad : i <= j),
                   slides |-> (CHOOSE i \in bad : \A j \in bad : i <= j),
                   written |-> None, pages |-> <<>>]
             ELSE [does |-> "saved", slides |-> Len(cs),
                   written |-> Some("publications.pptx"),
                   pages |-> [i \in 1 .. Len(cs) |-> institution_text(cs, i)]]

-----------------------------------------------------------------------------
(* main, lines 787-813 *)

MainInit ==
    /\ pc = "read_config"
    /\ config_txt \in {"missing", "empty", "paragraphs", "email", "ok"}
    /\ files \in [{"publications.pptx"} -> {"absent", "old"}]
    /\ config_file_dict = "unset"
    /\ start_end_date = "unset"
    /\ main_papers = <<>>
    /\ raw_components = <<>>
    /\ components = <<>>
    /\ closer = "none"
    /\ slides = 0
    /\ error = "none"
    /\ network = FALSE
    /\ PptxIdle
    /\ WrapIdle
    /\ LookupIdle

\* read_config_file, lines 582-614: "None" when config.txt is missing (the
\* function falls off its end), ValueError for an empty file, a file that is
\* not three paragraphs, or an email line without exactly one "@"
read_config_file(content) ==
    CASE content = "missing" -> [raises |-> "none", value |-> "None"]
      [] content = "ok"      -> [raises |-> "none", value |-> "dict"]
      [] OTHER               -> [raises |-> "ValueError", value |-> "unset"]

\* line 791
ReadConfig ==
    /\ pc = "read_config"
    /\ LET r == read_config_file(config_txt)
       IN  /\ config_file_dict' = r.value
           /\ error' = r.raises
           /\ pc' = IF r.raises = "none" THEN "ask_date" ELSE "failed"
    /\ UNCHANGED <<config_txt, files, start_end_date, main_papers, raw_components,
                   components, closer, slides, network>>
    /\ UNCHANGED <<wrapVars, lookupVars, pptxVars>>

\* line 794, ask_user_date (lines 616-652): the default week, dates typed in
\* the right format, or a date validate_date (lines 61-65) rejects
AskUserDate ==
    /\ pc = "ask_date"
    /\ \E typed \in {"default", "dates", "bad start", "bad end"} :
          IF typed \in {"default", "dates"}
          THEN /\ start_end_date' = "dates"
               /\ pc' = "lookup"
               /\ error' = error
          ELSE /\ start_end_date' = start_end_date
               /\ pc' = "failed"
               /\ error' = "ValueError"
    /\ UNCHANGED <<config_txt, files, config_file_dict, main_papers,
                   raw_components, components, closer, slides, network>>
    /\ UNCHANGED <<wrapVars, lookupVars, pptxVars>>

\* lines 796-797, lookup_pubmed as main sees it.  A raw record supplied by
\* the service is appended to papers (line 698).
LookupAppend ==
    /\ pc = "lookup"
    /\ config_file_dict = "dict"
    /\ Len(main_papers) < MaxPapers
    /\ \E paper \in SeqsUpTo(Articles, MaxArticles - ArticleCount(main_papers)) :
          main_papers' = Append(main_papers, paper)
    /\ network' = TRUE          \* the record came from an efetch call
    /\ UNCHANGED <<pc, config_txt, files, config_file_dict, start_end_date,
                   raw_components, components, closer, slides, error>>
    /\ UNCHANGED <<wrapVars, lookupVars, pptxVars>>

\* lookup_pubmed returns papers (line 703)
LookupReturns ==
    /\ pc = "lookup"
    /\ config_file_dict = "dict"
    /\ pc' = "paper_info"
    \* no call at all when the journal or the topic list is empty; else at
    \* least the esearch calls, which may all have found nothing
    /\ network' \in {network, TRUE}
    /\ UNCHANGED <<config_txt, files, config_file_dict, start_end_date, main_papers,
                   raw_components, components, closer, slides, error>>
    /\ UNCHANGED <<wrapVars, lookupVars, pptxVars>>

\* an exception leaves lookup_pubmed: the TypeError of line 668 when
\* config_file_dict is None, else one that get_pmids or get_paper let through
LookupRaises ==
    /\ pc = "lookup"
    /\ IF config_file_dict = "None"
       THEN /\ error' = "TypeError"
            /\ network' = network
       ELSE /\ error' \in {"TypeError", "ValueError", "AttributeError",
                            "UnboundLocalError", "Exception"}
            /\ network' = TRUE  \* raised by or after an Entrez call
    /\ pc' = "failed"
    /\ main_papers' = <<>>      \* the list built so far is lost with the call
    /\ UNCHANGED <<config_txt, files, config_file_dict, start_end_date,
                   raw_components, components, closer, slides>>
    /\ UNCHANGED <<wrapVars, lookupVars, pptxVars>>

\* line 801: get_paper_info, lines 111-175
GetPaperInfo ==
    /\ pc = "paper_info"
    /\ LET r == all_components(main_papers)
       IN  IF r.raises # "none"
           THEN /\ error' = r.raises
                /\ pc' = "failed"
                /\ UNCHANGED <<raw_components, components>>
           ELSE /\ raw_components' = r.components
                /\ components' = remove_duplicates(r.components)
                /\ pc' = "closer"
                /\ error' = error
    /\ UNCHANGED <<config_txt, files, config_file_dict, start_end_date,
                   main_papers, closer, slides, network>>
    /\ UNCHANGED <<wrapVars, lookupVars, pptxVars>>

\* lines 804-807
Closer ==
    /\ pc = "closer"
    /\ closer' = IF Len(components) = 0 THEN "print_closer_0" ELSE "print_closer_1"
    /\ pc' = "pptx"
    /\ UNCHANGED <<config_txt, files, config_file_dict, start_end_date,
                   main_papers, raw_components, components, slides, error, network>>
    /\ UNCHANGED <<wrapVars, lookupVars, pptxVars>>

\* lines 811-813: get_pptx with the default pptx_name
GetPptx ==
    /\ pc = "pptx"
    /\ LET r == get_pptx(pptx_name, files[pptx_name] # "absent", components)
       IN  /\ slides' = r.slides
           /\ files' = [f \in DOMAIN files |->
                          IF r.written = Some(f) THEN "new" ELSE files[f]]
           /\ pages' = r.pages
           /\ error' = IF r.does \in {"exists", "saved"} THEN error ELSE r.does
           /\ pc' = IF r.does \in {"exists", "saved"} THEN "done" ELSE "failed"
    /\ existed' = files
    /\ UNCHANGED <<config_txt, config_file_dict, start_end_date, main_papers,
                   raw_components, components, closer, network, pptx_name>>
    /\ UNCHANGED <<wrapVars, lookupVars>>

Next ==
    \/ ReadConfig
    \/ AskUserDate
    \/ LookupAppend
    \/ LookupReturns
    \/ LookupRaises
    \/ GetPaperInfo
    \/ Closer
    \/ GetPptx

Spec == MainInit /\ [][Next]_vars

-----------------------------------------------------------------------------
(* get_pptx called on its own, lines 177-562 *)

FileNames == {"publications.pptx", "other.pptx"}

\* the lists get_paper_info returns (lines 117-175), here for raw records of
\* one article each
ComponentLists ==
    {remove_duplicates(all_components(ps).components) :
        ps \in {q \in SeqsUpTo({<<a>> : a \in Articles}, MaxArticles) :
                    all_components(q).raises = "none"}}

PptxInit ==
    /\ pc = "pptx"
    /\ pptx_name \in FileNames
    /\ files \in [FileNames -> {"absent", "old"}]
    /\ components \in ComponentLists
    /\ existed = <<>>
    /\ pages = <<>>
    /\ config_txt = "ok"
    /\ config_file_dict = "dict"
    /\ start_end_date = "dates"
    /\ main_papers = <<>>
    /\ raw_components = <<>>
    /\ closer = "none"
    /\ slides = 0
    /\ error = "none"
    /\ network = FALSE
    /\ WrapIdle
    /\ LookupIdle

PptxNext == GetPptx

SpecPptx == PptxInit /\ [][PptxNext]_vars

-----------------------------------------------------------------------------
(* Properties of lookup_pubmed *)

\* the queries of J journals and K topics, journal by journal, topic by topic
Plan ==
    [n \in 1 .. Len(journals) * Len(keywords) |->
        combined_query(keywords[((n - 1) % Len(keywords)) + 1],
                       journals[((n - 1) \div Len(keywords)) + 1])]

LookupEnded == lpc \in {"returned", "raised"}
\* only get_pmids raises these two
SearchFailed == raised \in {"TypeError", "ValueError"}

\* C3: when lookup_pubmed has ended and no search call failed, the searches
\* issued are exactly the J x K queries, one per (journal, topic) pair, in
\* journal-major, topic-minor order, equal topics issued one by one.
C3_AllQueriesIssued == (LookupEnded /\ ~SearchFailed) => queries = Plan

\* C4: every efetch call, first attempt or retry, has exactly one sleep(1)
\* between it and the efetch call before it.
C4_PauseBeforeEveryFetch == fetch_pauses # -1 => fetch_pauses = 1

RECURSIVE Count429(_)
Count429(answers) ==
    IF answers = <<>> THEN 0
    ELSE (IF Head(answers) = "429" THEN 1 ELSE 0) + Count429(Tail(answers))

\* C5: with attempt_number 3, while the answers for an identifier follow the
\* course 429, 429, success, the run is not aborted and one sleep(10) is made
\* per 429; after the success the record is in papers and two were made.
C5_RetryAfter429 ==
    (/\ attempt_number = 3
     /\ resp # <<>>
     /\ resp = SubSeq(<<"429", "429", "ok">>, 1, Len(resp)))
        => /\ raised = "none"
           /\ backoffs = Count429(resp)
           /\ Len(resp) = 3 => (papers # <<>> /\ backoffs = 2)

\* C6: a search that fails with a transport error does not end lookup_pubmed:
\* no such failure leaves it as an exception, and the run goes on to issue
\* the remaining queries and to return the records retrieved.
C6_SearchFailureSkipped ==
    /\ raised # "TypeError"
    /\ lpc = "returned" => queries = Plan

\* C14: once an efetch call for an identifier has succeeded, no further efetch
\* call is issued for it, so an identifier adds one raw record; an attempt
\* after the first follows a failure only, and there are never more than
\* attempt_number of them.
C14_NoFetchAfterSuccess ==
    /\ \A i \in 1 .. Len(resp) - 1 : resp[i] # "ok"
    /\ Len(resp) <= attempt_number

-----------------------------------------------------------------------------
(* Properties of get_paper_info and main *)

FirstOccurrences(cs) ==
    {i \in 1 .. Len(cs) : \A j \in 1 .. (i - 1) : cs[j].Title # cs[i].Title}

RECURSIVE Pick(_, _, _)
Pick(cs, I, i) ==
    IF i > Len(cs) THEN <<>>
    ELSE (IF i \in I THEN <<cs[i]>> ELSE <<>>) \o Pick(cs, I, i + 1)

\* C1: the list returned holds no two records with the same title, and is the
\* list of the first records of each title, in their original order.
C1_FirstOfEachTitle ==
    /\ \A i, j \in 1 .. Len(components) :
          i # j => components[i].Title # components[j].Title
    /\ components = Pick(raw_components, FirstOccurrences(raw_components), 1)
    /\ {components[i].Title : i \in 1 .. Len(components)}
          = {raw_components[i].Title : i \in 1 .. Len(raw_components)}

\* titles A, B, A with two different records titled A
C1_Witness ==
    /\ pc = "closer"
    /\ Len(raw_components) >= 3
    /\ raw_components[1].Title = raw_components[3].Title
    /\ raw_components[1] # raw_components[3]
    /\ raw_components[1].Title # raw_components[2].Title
    /\ Len(components) = 2

InputArticles ==
    UNION {{main_papers[i][k] : k \in 1 .. Len(main_papers[i])} :
              i \in 1 .. Len(main_papers)}

\* C2: every record returned carries the title and the abstract of an
\* article that has both; none carries a placeholder for either.
C2_TitleAndAbstract ==
    \A i \in 1 .. Len(components) :
        /\ components[i].Title # NoTitle
        /\ components[i].Abstract # NoAbstract
        /\ \E a \in InputArticles :
              /\ a.citation
              /\ a.ArticleTitle = Some(components[i].Title)
              /\ a.AbstractText # None
              /\ a.AbstractText[1] # <<>>
              /\ a.AbstractText[1][1] = components[i].Abstract

C2_Witness ==
    /\ pc = "closer"
    /\ components # <<>>
    /\ \E a \in InputArticles :
          a.citation /\ a.ArticleTitle # None /\ a.AbstractText = None
    /\ \E a \in InputArticles : a.citation /\ a.ArticleTitle = None

RECURSIVE Flatten(_)
Flatten(ps) == IF ps = <<>> THEN <<>> ELSE Head(ps) \o Flatten(Tail(ps))

HasBoth(a) == a.citation /\ a.ArticleTitle # None /\ a.AbstractText # None

RECURSIVE FirstTitles(_, _)
FirstTitles(as, seen) ==
    IF as = <<>> THEN <<>>
    ELSE IF HasBoth(Head(as)) /\ Head(as).ArticleTitle[1] \notin seen
         THEN <<Head(as).ArticleTitle[1]>>
              \o FirstTitles(Tail(as), seen \cup {Head(as).ArticleTitle[1]})
         ELSE FirstTitles(Tail(as), seen)

\* C13: an article skipped for a missing title or abstract takes no other
\* article with it: the titles returned are the first occurrences, in input
\* order, of the titles of all the articles of all the raw records that have
\* both fields.
C13_SkipOnlyThatArticle ==
    pc = "closer" =>
        [i \in 1 .. Len(components) |-> components[i].Title]
            = FirstTitles(Flatten(main_papers), {})

\* C12: a configuration error, a date format error and an output file that
\* exists already each end the run before any esearch or efetch call.
C12_ChecksBeforeNetwork ==
    /\ (pc = "failed" /\ start_end_date = "unset") => ~network
    /\ (pc = "failed" /\ config_file_dict = "None") => ~network
    /\ (pc = "done" /\ existed # <<>> /\ existed[pptx_name] = "old") => ~network

\* C10: a run whose final publication set is empty does not fail, prints the
\* "no results" banner and saves no output file.
C10_EmptySetNoFile ==
    (closer # "none" /\ components = <<>>) =>
        /\ closer = "print_closer_0"
        /\ pc # "failed"
        /\ files["publications.pptx"] # "new"

-----------------------------------------------------------------------------
(* Properties of get_pptx *)

PptxEnded == pc \in {"done", "failed"} /\ existed # <<>>

\* C11: get_pptx never overwrites a file that exists, whatever its output
\* name argument: the file it writes is the file whose existence it checked,
\* and when the named output exists nothing is built and nothing is written.
C11_NeverOverwrites ==
    PptxEnded =>
        /\ \A f \in DOMAIN files :
              /\ existed[f] = "old" => files[f] = "old"
              /\ files[f] = "new" => f = pptx_name
        /\ existed[pptx_name] = "old" => (files = existed /\ slides = 0)

\* C15: the institution line of every slide is computed from the affiliation
\* list of that publication only, the top two by frequency with ties by
\* first occurrence; a record without an affiliation list shows none, never
\* those of an earlier record.
C15_OwnInstitutions ==
    (PptxEnded /\ files # existed) =>
        \A i \in 1 .. Len(components) :
            pages[i] = IF components[i].Institution = None THEN <<>>
                       ELSE institution_info(components[i].Institution[1])

\* C16: for every list get_paper_info can return, get_pptx builds one slide
\* per record, in list order, and saves the file without raising.
C16_SavesEveryList ==
    (PptxEnded /\ existed[pptx_name] = "absent") =>
        /\ pc = "done"
        /\ slides = Len(components)
        /\ \E f \in DOMAIN files : files[f] = "new"

-----------------------------------------------------------------------------
(* Properties of the wrap loop *)

RECURSIVE Concat(_)
Concat(ss) == IF ss = <<>> THEN <<>> ELSE Head(ss) \o Concat(Tail(ss))

\* the runs joined again, glue(i) put back between run i and run i+1
Rejoin(glue(_)) ==
    Concat([i \in 1 .. Len(runs) |->
              IF i <= Len(breaks) THEN runs[i] \o glue(i) ELSE runs[i]])

SingleSpace(i) == IF breaks[i].hard THEN <<>> ELSE <<SP>>
Stripped(i) == breaks[i].stripped

\* C7 as stated: joining the emitted lines with one space at every soft break
\* and nothing at every hard break gives back the text exactly.
C7_RoundTrip == wpc = "done" => Rejoin(SingleSpace) = orig

\* C7 amended: putting back at every break the whitespace that lstrip removed
\* there gives back the text exactly; one space per soft break and nothing per
\* hard break gives it back exactly when that is what was removed at each break.
C7_RoundTripStripped ==
    wpc = "done" =>
        /\ Rejoin(Stripped) = orig
        /\ \A i \in 1 .. Len(breaks) :
              /\ \A k \in 1 .. Len(breaks[i].stripped) :
                    breaks[i].stripped[k] \in Whitespace
              /\ ~breaks[i].hard => Len(breaks[i].stripped) >= 1 /\ breaks[i].stripped[1] = SP
        /\ (Rejoin(SingleSpace) = orig
              <=> \A i \in 1 .. Len(breaks) : Stripped(i) = SingleSpace(i))

C7_Witness ==
    /\ wpc = "done"
    /\ \E i \in 1 .. Len(breaks) : breaks[i].hard /\ breaks[i].stripped # <<>>
    /\ \E i \in 1 .. Len(breaks) : ~breaks[i].hard /\ Len(breaks[i].stripped) = 1
    /\ Rejoin(SingleSpace) # orig

\* C8: every emitted line (chunk or final remainder) has at most
\* max_characters_per_line characters, and a chunk of exactly that many
\* characters comes only from a forced break, with no space in the chunk.
C8_LineLength ==
    \A i \in 1 .. Len(runs) :
        /\ Len(runs[i]) <= max_characters_per_line
        /\ (i <= Len(breaks) /\ Len(runs[i]) = max_characters_per_line) =>
              /\ breaks[i].hard
              /\ \A k \in 1 .. Len(runs[i]) : runs[i][k] # SP

C8_Witness ==
    /\ wpc = "done"
    /\ \E i \in 1 .. Len(breaks) :
          breaks[i].hard /\ Len(runs[i]) = max_characters_per_line
    /\ \E i \in 1 .. Len(breaks) :
          ~breaks[i].hard /\ Len(runs[i]) = max_characters_per_line - 1
    /\ Len(runs[Len(runs)]) = max_characters_per_line

\* C9: every pass of the loop leaves strictly less text than it found, and the
\* loop reaches its end.
C9_Terminates ==
    /\ [][wpc' = "loop" => Len(text') < Len(text)]_vars
    /\ <>(wpc = "done")

C9_Witness ==
    /\ wpc = "done"
    /\ Len(orig) > max_characters_per_line
    /\ orig[1] = SP
    /\ \E i \in 1 .. Len(breaks) : breaks[i].hard
    /\ Len(runs) >= 3

=============================================================================
